---- MODULE Spec2Model ----
(***************************************************************************)
(* Milwaukee Custard Tracker (src/scraper.js): the shared browser, the     *)
(* retrying navigator, the five source adapters, the master scraper        *)
(* scrapeAllStands, and the flavors.json store.                            *)
(*                                                                         *)
(* Spec      : scrapeAllStands runs, one after another, with every         *)
(*             adapter step and every failure point of the adapters.       *)
(* SpecStore : saveFlavorData / loadFlavorData on flavors.json, with the   *)
(*             write of the file split into its open(truncate), write and  *)
(*             close steps, and readers interleaved with it.               *)
(* SpecTimed : the runs of Spec with the wall clock running.               *)
(* SpecLive  : the first run of a process under fair scheduling.           *)
(* SpecBrowser : getBrowser / closeBrowser calls of overlapping callers,   *)
(*             with browsers that disconnect, and gracefulShutdown.        *)
(* SpecTriggers : the jobs started by startServer, the cron callback and   *)
(*             POST /api/scrape, with the clock and the stored Snapshot.   *)
(* SpecKopps : the walk of scrapeKopps over the headings of a document.    *)
(***************************************************************************)
EXTENDS Integers, Sequences, FiniteSets, TLC

VARIABLES
  browserInstance,  \* "null" | "connected"            (let browserInstance)
  openPages,        \* pages opened from the browser and not closed
  now,              \* the wall clock, in ticks
  pc,               \* scrapeAllStands: "idle" | "loop" | "await" | "done"
  idx,              \* position of the for-of loop in scrapers (1-based)
  results,          \* the results object of the run
  outcomes,         \* history: what each scraper.fn() call resolved to
  cpc,              \* scrapeAllCulvers: "none" | "loop" | "await"
  cIdx,             \* position of the for-of loop in CULVERS_LOCATIONS
  cResults,         \* the results array of scrapeAllCulvers
  apc,              \* adapter: "none"|"getBrowser"|"newPage"|"nav"|"extract"|"close"|"catch"
  fn,               \* the adapter function running
  page,             \* the adapter's page variable: "undefined" | "open" | "closed"
  caught,           \* message of the error the adapter's catch block received
  extracted,        \* what the adapter read from the document
  navI,             \* safePageNavigation: loop variable i
  lastError,        \* safePageNavigation: lastError
  navLog,           \* history: the page.goto calls of the current navigation
  navRet,           \* history: how the current navigation ended
  ret,              \* the settled promise of the last adapter call, not yet consumed
  dirExists,        \* CONFIG.DATA_DIR exists
  fileExists,       \* flavors.json exists
  fileContent,      \* the tokens of flavors.json
  spc,              \* saveFlavorData: "idle"|"mkdir"|"open"|"write"|"done"|"failed"
  sData,            \* the argument of the saveFlavorData call
  sText,            \* JSON.stringify(data, null, 2) of that call
  prevStored,       \* history: the document in place when the save started
  sError,           \* history: the error the save met ("" for none)
  loaded,           \* history: the result of the last loadFlavorData call
  invoked,          \* history: the scraper.fn() calls the run has made, in order
  pagesAtStart,     \* history: the pages that were open when the run started
  settledAt,        \* history: the time the last scraper.fn() call settled
  instances,        \* the browsers puppeteer.launch has produced, and their state
  launches,         \* the puppeteer.launch calls made so far
  gb,               \* the getBrowser calls, one record per caller
  cb,               \* the closeBrowser calls, one record per caller
  exited,           \* process.exit(0) has been called
  server,           \* startServer: "init" | "initialScrape" | "listening"
  jobs,             \* the scrape-and-save jobs, one record per trigger
  stored,           \* the timestamp of the Snapshot in flavors.json (-1: no file)
  kpc,              \* scrapeKopps' parsing: "none" | "loaded" | "done"
  html,             \* the document cheerio.load(html) produced
  kFlavors          \* the flavors array scrapeKopps built from it

runVars == <<openPages, pc, idx, results, outcomes,
             cpc, cIdx, cResults, apc, fn, page, caught, extracted,
             navI, lastError, navLog, navRet, ret, invoked, pagesAtStart,
             settledAt>>
pipeVars == <<browserInstance, runVars>>
runHist == <<invoked, pagesAtStart, settledAt>>
storeVars == <<dirExists, fileExists, fileContent, spc, sData, sText,
               prevStored, sError, loaded>>
browserVars == <<instances, launches, gb, cb, exited>>
triggerVars == <<server, jobs, stored>>
koppsVars == <<kpc, html, kFlavors>>
auxVars == <<browserVars, triggerVars, koppsVars>>
notBrowser == <<runVars, storeVars, now, triggerVars, koppsVars>>
notTriggers == <<pipeVars, storeVars, now, browserVars, koppsVars>>
notKopps == <<pipeVars, storeVars, now, browserVars, triggerVars>>
vars == <<pipeVars, storeVars, now, auxVars>>

----------------------------------------------------------------------------
(* Bounds *)

MaxTime == 1        \* the clock stops ticking here
MaxLeaked == 1      \* page.close() is only let fail while at most this many pages leak
BlockSize == 16     \* a write call transfers a whole number of blocks of this many tokens
MaxLaunches == 3    \* puppeteer.launch is called at most this many times
MaxElements == 3    \* a Kopp's document has at most this many sibling elements

----------------------------------------------------------------------------
(* Constants and literals of the source *)

maxRetries == 3

scrapers ==
  << [name |-> "Kopp's",   fn |-> "scrapeKopps"],
     [name |-> "Murf's",   fn |-> "scrapeMurfs"],
     [name |-> "Culver's", fn |-> "scrapeAllCulvers"],
     [name |-> "Leon's",   fn |-> "scrapeLeonsStatic"],
     [name |-> "Gilles",   fn |-> "scrapeGilles"] >>

CULVERS_LOCATIONS ==
  << [slug |-> "west-milwaukee",        name |-> "Culver's", location |-> "West Milwaukee - Miller Park Way"],
     [slug |-> "milwaukee-good-hope",   name |-> "Culver's", location |-> "Milwaukee - Good Hope Rd"],
     [slug |-> "milwaukee-fond-du-lac", name |-> "Culver's", location |-> "Milwaukee - Fond du Lac Ave"],
     [slug |-> "milwaukee-capitol",     name |-> "Culver's", location |-> "Milwaukee - Capitol Drive"],
     [slug |-> "west-allis",            name |-> "Culver's", location |-> "West Allis - Layton Ave"] >>

\* new Date().toISOString().split("T")[0] of today + daysOffset, as a day label
getStandardDate(daysOffset) == IF daysOffset = 0 THEN "D+0" ELSE "D+1"

\* new Date().toLocaleString("en-US", {timeZone}) at tick t
toLocaleString(t) == "L" \o ToString(t)

\* The url each adapter passes to safePageNavigation
NavUrl(f, loc) ==
  CASE f = "scrapeKopps"   -> "https://kopps.com/flavor-preview"
    [] f = "scrapeMurfs"   -> "https://www.murfsfrozencustard.com/flavorForecast"
    [] f = "scrapeCulvers" -> "https://www.culvers.com/restaurants/" \o loc.slug
    [] f = "scrapeGilles"  -> "https://gillesfrozencustard.com"

\* A Location object (address, phone and website are display constants that
\* nothing reads; they are left out of the record).  The Culver's objects also
\* carry the slug of the spread locationData
Location(id, name, location, status, hours, flavors) ==
  [id |-> id, name |-> name, location |-> location, status |-> status,
   hours |-> hours, flavors |-> flavors]

\* The one-day, one-flavor list the adapters fall back to
CheckDay(label, name, description) ==
  << [date |-> getStandardDate(0), dayLabel |-> label,
      flavors |-> << [name |-> name, description |-> description] >>] >>

----------------------------------------------------------------------------
(* scrapeKopps: the walk over the h2 headings of the flavor-preview page.    *)
(* Texts are sequences of characters.  The document is what cheerio.load    *)
(* hands out: sibling elements whose tagName is the parser's name of the     *)
(* tag, which for an HTML document is in lower case                          *)

\* A number and its decimal digits
RECURSIVE NumToDigits(_)
NumToDigits(n) == IF n < 10 THEN <<n>> ELSE Append(NumToDigits(n \div 10), n % 10)

RECURSIVE DigitsToNum(_)
DigitsToNum(d) ==
  IF Len(d) = 0 THEN 0
  ELSE 10 * DigitsToNum(SubSeq(d, 1, Len(d) - 1)) + d[Len(d)]

UpperCase ==
  <<"A", "B", "C", "D", "E", "F", "G", "H", "I", "J", "K", "L", "M",
    "N", "O", "P", "Q", "R", "S", "T", "U", "V", "W", "X", "Y", "Z">>
LowerCase ==
  <<"a", "b", "c", "d", "e", "f", "g", "h", "i", "j", "k", "l", "m",
    "n", "o", "p", "q", "r", "s", "t", "u", "v", "w", "x", "y", "z">>
DecimalDigits == <<"0", "1", "2", "3", "4", "5", "6", "7", "8", "9">>

Range(seq) == {seq[i] : i \in 1..Len(seq)}
Letters == Range(UpperCase) \cup Range(LowerCase)      \* [A-Za-z]
Digits == Range(DecimalDigits)                         \* \d
WhiteSpace == {" "}                                    \* \s

\* The string of a sequence of characters
RECURSIVE Concat(_)
Concat(cs) == IF Len(cs) = 0 THEN "" ELSE cs[1] \o Concat(Tail(cs))

\* String.prototype.trim
RECURSIVE trim(_)
trim(t) ==
  IF Len(t) = 0 THEN t
  ELSE IF t[1] \in WhiteSpace THEN trim(Tail(t))
  ELSE IF t[Len(t)] \in WhiteSpace THEN trim(SubSeq(t, 1, Len(t) - 1))
  ELSE t

\* String.prototype.includes
includes(t, pattern) ==
  \E i \in 1..(Len(t) - Len(pattern) + 1) :
    SubSeq(t, i, i + Len(pattern) - 1) = pattern

\* String.prototype.toLowerCase
toLowerCase(t) ==
  [i \in 1..Len(t) |->
     IF t[i] \in Range(UpperCase)
     THEN LowerCase[CHOOSE k \in 1..Len(UpperCase) : UpperCase[k] = t[i]]
     ELSE t[i]]

\* parseInt of a run of digits
parseInt(t) ==
  DigitsToNum([i \in 1..Len(t) |->
                 (CHOOSE k \in 1..Len(DecimalDigits) : DecimalDigits[k] = t[i]) - 1])

\* The last position of the longest run of characters of class that starts
\* at position i (i - 1 when there is none): a greedy `+`
RECURSIVE RunEnd(_, _, _)
RunEnd(t, i, class) ==
  IF i <= Len(t) /\ t[i] \in class THEN RunEnd(t, i + 1, class) ELSE i - 1

\* headerText.match(/([A-Za-z]+)\s+(\d+)\/(\d+)/) tried at position i: the
\* ends of the four runs, and whether the text matches there
MatchAt(t, i) ==
  LET e1 == RunEnd(t, i, Letters)
      ws == RunEnd(t, e1 + 1, WhiteSpace)
      e2 == RunEnd(t, ws + 1, Digits)
      e3 == RunEnd(t, e2 + 2, Digits)
  IN [ok |-> /\ e1 >= i
             /\ ws > e1
             /\ e2 > ws
             /\ e2 + 1 <= Len(t) /\ t[e2 + 1] = "/"
             /\ e3 > e2 + 1,
      g1 |-> SubSeq(t, i, e1),
      g2 |-> SubSeq(t, ws + 1, e2),
      g3 |-> SubSeq(t, e2 + 2, e3)]

\* The leftmost match of the regular expression, if any
DateMatch(t) ==
  LET starts == {i \in 1..Len(t) : MatchAt(t, i).ok} IN
  IF starts = {} THEN [ok |-> FALSE, g1 |-> <<>>, g2 |-> <<>>, g3 |-> <<>>]
  ELSE MatchAt(t, CHOOSE i \in starts : \A j \in starts : i <= j)

\* new Date(year, month - 1, day).toISOString().split("T")[0], as a label of
\* the month and the day
IsoDate(month, day) == "M" \o ToString(month) \o "-D" \o ToString(day)

\* The date and dayLabel the .each callback gives a heading; date "" is null
HeadingDay(headerText) ==
  IF includes(headerText, <<"T", "o", "d", "a", "y">>)
  THEN [date |-> getStandardDate(0), dayLabel |-> "today"]
  ELSE IF includes(headerText, <<"T", "o", "m", "o", "r", "r", "o", "w">>)
  THEN [date |-> getStandardDate(1), dayLabel |-> "tomorrow"]
  ELSE LET dateMatch == DateMatch(headerText) IN
       IF dateMatch.ok
       THEN [date |-> IsoDate(parseInt(dateMatch.g2), parseInt(dateMatch.g3)),
             dayLabel |-> Concat(toLowerCase(dateMatch.g1))]
       ELSE [date |-> "", dayLabel |-> ""]

\* currentEl.next("p").text().trim()
NextParagraphText(doc, j) ==
  IF j + 1 <= Len(doc) /\ doc[j + 1].tagName = "p" THEN trim(doc[j + 1].text)
  ELSE <<>>

\* The while loop of the .each callback, from sibling j on: it stops at the
\* end of the siblings or at an element whose tagName is "H2", and collects
\* the elements whose tagName is "H3"
RECURSIVE DayFlavors(_, _)
DayFlavors(doc, j) ==
  IF j <= Len(doc) /\ doc[j].tagName # "H2"
  THEN LET name == trim(doc[j].text)
           description == NextParagraphText(doc, j)
           pushed == IF doc[j].tagName = "H3" /\ name # <<>>
                     THEN << [name |-> Concat(name),
                              description |-> IF description # <<>>
                                              THEN Concat(description)
                                              ELSE "No description available"] >>
                     ELSE <<>>
       IN pushed \o DayFlavors(doc, j + 1)
  ELSE <<>>

\* $("h2").each(..): the flavors array after the headings from element i on
RECURSIVE EachH2(_, _)
EachH2(doc, i) ==
  IF i > Len(doc) THEN <<>>
  ELSE LET day == IF doc[i].tagName = "h2" THEN HeadingDay(trim(doc[i].text))
                  ELSE [date |-> "", dayLabel |-> ""]
           pushed == IF day.date # ""
                     THEN << [date |-> day.date, dayLabel |-> day.dayLabel,
                              flavors |-> DayFlavors(doc, i + 1)] >>
                     ELSE <<>>
       IN pushed \o EachH2(doc, i + 1)

\* The flavors array scrapeKopps builds from a document
KoppsFlavors(doc) == EachH2(doc, 1)

\* The texts of the elements of a flavor-preview page
TodayHeading == <<"T", "o", "d", "a", "y", "'", "s", " ", "F", "l", "a", "v", "o", "r", "s", " ", "-", " ", "M", "o", "n", "d", "a", "y", " ", "1", "/", "5">>
WeekdayHeading == <<"T", "u", "e", "s", "d", "a", "y", " ", "1", "/", "6">>
TomorrowHeading == <<"T", "o", "m", "o", "r", "r", "o", "w">>
OtherHeading == <<"F", "l", "a", "v", "o", "r", " ", "P", "r", "e", "v", "i", "e", "w">>
HeadingTexts == {TodayHeading, WeekdayHeading, TomorrowHeading, OtherHeading}
FlavorTexts == {<<"T", "i", "r", "a", "m", "i", "s", "u">>, <<" ">>}
ParagraphTexts == {<<"R", "i", "c", "h">>, <<>>}

KoppsElements ==
  {[tagName |-> "h2", text |-> t] : t \in HeadingTexts}
    \cup {[tagName |-> "h3", text |-> t] : t \in FlavorTexts}
    \cup {[tagName |-> "p", text |-> t] : t \in ParagraphTexts}

\* The documents page.content() and cheerio.load can produce
KoppsDocuments == UNION {[1..n -> KoppsElements] : n \in 0..MaxElements}

\* const html = await page.content(); const $ = cheerio.load(html)
KoppsContent ==
  /\ kpc \in {"none", "done"}
  /\ \E doc \in KoppsDocuments : html' = doc
  /\ kFlavors' = <<>>
  /\ kpc' = "loaded"
  /\ UNCHANGED notKopps

\* $("h2").each(..) has run over the document
KoppsEach ==
  /\ kpc = "loaded"
  /\ kFlavors' = KoppsFlavors(html)
  /\ kpc' = "done"
  /\ UNCHANGED <<html, notKopps>>

----------------------------------------------------------------------------
(* What the environment can hand to an adapter *)

NavErrorMsgs == {"Navigation timeout of 30000 ms exceeded"}

\* scrapeKopps: a page without headings, and a page with today's heading, a
\* flavor sub-heading and its paragraph
KoppsPages ==
  { <<>>,
    << [tagName |-> "h2", text |-> TodayHeading],
       [tagName |-> "h3", text |-> <<"T", "i", "r", "a", "m", "i", "s", "u">>],
       [tagName |-> "p", text |-> <<"R", "i", "c", "h">>] >> }

\* scrapeKopps: the flavors array built from the h2 headings of the page
KoppsParsed == {KoppsFlavors(doc) : doc \in KoppsPages}

\* scrapeMurfs: the flavors array page.evaluate returns
MurfsEvaluated ==
  { <<>>, << [date |-> "Today", name |-> "Flavor A", description |-> ""] >> }

\* scrapeCulvers: the results array page.evaluate returns
CulversEvaluated ==
  { <<>>, << [dayLabel |-> "today", date |-> "Today", name |-> "Flavor A"] >> }

\* scrapeGilles: what cheerio finds in the page
GillesParsed ==
  { [closedWinter |-> TRUE,  flavorHeading |-> "", flavorText |-> ""],
    [closedWinter |-> FALSE, flavorHeading |-> "Flavor of the Day",
                             flavorText |-> "Vanilla custard"],
    [closedWinter |-> FALSE, flavorHeading |-> "", flavorText |-> ""] }

Documents(f) ==
  CASE f = "scrapeKopps"   -> KoppsParsed
    [] f = "scrapeMurfs"   -> MurfsEvaluated
    [] f = "scrapeCulvers" -> CulversEvaluated
    [] f = "scrapeGilles"  -> GillesParsed

----------------------------------------------------------------------------
(* What the adapters return *)

KoppsLocations(flavors) ==
  << Location("kopps-greenfield", "Kopp's Frozen Custard", "Greenfield", "open", "10:30am - 10:30pm", flavors),
     Location("kopps-brookfield", "Kopp's Frozen Custard", "Brookfield", "open", "10:30am - 10:30pm", flavors),
     Location("kopps-glendale",   "Kopp's Frozen Custard", "Glendale",   "open", "10:30am - 10:30pm", flavors) >>

\* scrapeKopps, catch block: return []
KoppsCaught == <<>>

MurfsLocations(flavorData) ==
  << Location("murfs-brookfield", "Murf's Frozen Custard", "Brookfield", "open",
              "10:30am - 9:00pm (Closed Mondays)",
              IF Len(flavorData) > 0 THEN flavorData
              ELSE CheckDay("today", "Check website",
                            "Visit murfsfrozencustard.com for today's flavor")) >>

MurfsCaught ==
  << Location("murfs-brookfield", "Murf's Frozen Custard", "Brookfield", "open",
              "10:30am - 9:00pm (Closed Mondays)",
              CheckDay("today", "Check website", "Visit website for today's flavor")) >>

CulversIdMutant(locationData) == "culvers-" \o locationData.name

\* id: `culvers-${locationData.slug}`
CulversId(locationData) == "culvers-" \o locationData.slug

\* scrapeCulvers returns one object, not an array; the model carries it as a
\* one-element tuple that scrapeAllCulvers unwraps
CulversLocation(locationData, flavorData) ==
  << [slug |-> locationData.slug] @@
     Location(CulversId(locationData), locationData.name, locationData.location,
              "open", "10:00am - 11:00pm",
              IF Len(flavorData) > 0 THEN flavorData
              ELSE CheckDay("today", "Check location",
                            "Visit Culver's website for today's flavor")) >>

CulversCaught(locationData) ==
  << [slug |-> locationData.slug] @@
     Location(CulversId(locationData), locationData.name, locationData.location,
              "open", "10:00am - 11:00pm",
              CheckDay("today", "Check location", "Visit location for today's flavor")) >>

scrapeLeonsStatic ==
  << Location("leons-milwaukee", "Leon's Frozen Custard", "Milwaukee", "open",
              "11:00am - 11:00pm",
              << [date |-> getStandardDate(0), dayLabel |-> "always",
                  flavors |->
                    << [name |-> "Vanilla", description |-> "Classic vanilla custard (always available)"],
                       [name |-> "Chocolate", description |-> "Rich chocolate custard (always available)"],
                       [name |-> "Butter Pecan", description |-> "Butter pecan custard (always available)"],
                       [name |-> "Weekend Special", description |-> "Check in-store or Facebook for weekend specials"] >>] >>) >>

GillesLocations(doc) ==
  IF doc.closedWinter
  THEN << Location("gilles-milwaukee", "Gilles Frozen Custard", "Milwaukee", "closed",
                   "Reopens January 8th, 2026",
                   CheckDay("closed", "Closed for Winter", "Returning January 8, 2026")) >>
  ELSE << Location("gilles-milwaukee", "Gilles Frozen Custard", "Milwaukee", "open",
                   "11:00am - 9:00pm",
                   CheckDay("today",
                            IF doc.flavorHeading # "" THEN doc.flavorHeading ELSE "Check in-store",
                            IF doc.flavorText # "" THEN doc.flavorText
                            ELSE "Visit Gilles for today's special flavor")) >>

GillesCaught ==
  << Location("gilles-milwaukee", "Gilles Frozen Custard", "Milwaukee", "unknown",
              "Check website",
              CheckDay("today", "Check website", "Visit website for current status")) >>

\* The value of the adapter's try block
Returned(f, loc, doc) ==
  CASE f = "scrapeKopps"   -> KoppsLocations(doc)
    [] f = "scrapeMurfs"   -> MurfsLocations(doc)
    [] f = "scrapeCulvers" -> CulversLocation(loc, doc)
    [] f = "scrapeGilles"  -> GillesLocations(doc)

\* The value of the adapter's catch block
Fallback(f, loc) ==
  CASE f = "scrapeKopps"   -> KoppsCaught
    [] f = "scrapeMurfs"   -> MurfsCaught
    [] f = "scrapeCulvers" -> CulversCaught(loc)
    [] f = "scrapeGilles"  -> GillesCaught

----------------------------------------------------------------------------
(* safePageNavigation, the adapters, scrapeAllCulvers, scrapeAllStands *)

NoError == [message |-> "", attempt |-> 0]
Error(message) == [message |-> message, attempt |-> 0]
NoRet == [kind |-> "none", fn |-> "none", value |-> <<>>, error |-> "", navFailed |-> FALSE]
Resolved(f, value, navFailed) ==
  [kind |-> "value", fn |-> f, value |-> value, error |-> "", navFailed |-> navFailed]
Rejected(f, error, navFailed) ==
  [kind |-> "raised", fn |-> f, value |-> <<>>, error |-> error.message, navFailed |-> navFailed]

NetworkAdapters == {"scrapeKopps", "scrapeMurfs", "scrapeGilles"}

\* The argument of the running scrapeCulvers call
CurrentLoc ==
  IF fn = "scrapeCulvers" THEN CULVERS_LOCATIONS[cIdx]
  ELSE [slug |-> "", name |-> "", location |-> ""]

\* The adapter's locals once it has settled
AdapterDone(r) ==
  /\ ret' = r
  /\ apc' = "none"
  /\ fn' = "none"
  /\ page' = "undefined"
  /\ caught' = NoError
  /\ extracted' = <<>>
  /\ navI' = 0
  /\ lastError' = NoError
  /\ navLog' = <<>>
  /\ navRet' = "none"

\* try { browser = await getBrowser(); ...
AdapterGetBrowser ==
  /\ apc = "getBrowser"
  /\ \/ /\ browserInstance = "connected"
        /\ apc' = "newPage"
        /\ UNCHANGED <<browserInstance, caught>>
     \/ /\ browserInstance # "connected"
        /\ browserInstance' = "connected"          \* puppeteer.launch resolved
        /\ apc' = "newPage"
        /\ UNCHANGED caught
     \/ /\ browserInstance # "connected"
        /\ apc' = "catch"                          \* puppeteer.launch rejected
        /\ caught' = Error("Failed to launch the browser process")
        /\ UNCHANGED browserInstance
  /\ UNCHANGED <<openPages, now, pc, idx, results, outcomes, cpc, cIdx,
                 cResults, fn, page, extracted, navI, lastError, navLog, navRet,
                 ret, storeVars, runHist, auxVars>>

\* page = await browser.newPage(); then safePageNavigation is entered
AdapterNewPage ==
  /\ apc = "newPage"
  /\ \/ /\ page' = "open"
        /\ openPages' = openPages + 1
        /\ apc' = "nav"
        /\ navI' = 0
        /\ lastError' = NoError
        /\ navLog' = <<>>
        /\ navRet' = "none"
        /\ UNCHANGED caught
     \/ /\ apc' = "catch"
        /\ caught' = Error("Protocol error (Target.createTarget)")
        /\ UNCHANGED <<page, openPages, navI, lastError, navLog, navRet>>
  /\ UNCHANGED <<browserInstance, now, pc, idx, results, outcomes, cpc,
                 cIdx, cResults, fn, extracted, ret, storeVars, runHist, auxVars>>

KeepFirstError(previous, error) == IF previous = NoError THEN error ELSE previous

\* catch (error) { lastError = error; ...
CatchNavError(previous, error) == error

BackoffMutant(i) == 2000

\* await setTimeout(2000 * (i + 1)), in ms
Backoff(i) == 2000 * (i + 1)

\* if (i < maxRetries - 1) { await setTimeout(..) }: the wait that follows the
\* failed attempt of turn i of the loop, 0 for none
WaitAfterFailure(i) == IF i < maxRetries - 1 THEN Backoff(i) ELSE 0

\* One turn of the for loop of safePageNavigation: page.goto resolves (return
\* true) or rejects (lastError = error; the backoff wait; i++)
NavAttempt ==
  /\ apc = "nav"
  /\ navI < maxRetries
  /\ \/ /\ navLog' = Append(navLog, [url |-> NavUrl(fn, CurrentLoc), error |-> NoError,
                                     wait |-> 0])
        /\ navRet' = "true"
        /\ apc' = "extract"
        /\ UNCHANGED <<navI, lastError>>
     \/ \E m \in NavErrorMsgs :
          LET error == [message |-> m, attempt |-> navI + 1] IN
          /\ lastError' = CatchNavError(lastError, error)
          /\ navLog' = Append(navLog, [url |-> NavUrl(fn, CurrentLoc), error |-> error,
                                       wait |-> WaitAfterFailure(navI)])
          /\ navI' = navI + 1
          /\ UNCHANGED <<navRet, apc>>
  /\ UNCHANGED <<browserInstance, openPages, now, pc, idx, results, outcomes,
                 cpc, cIdx, cResults, fn, page, caught, extracted, ret,
                 storeVars, runHist, auxVars>>

\* The loop of safePageNavigation is over: throw lastError, which lands in the
\* adapter's catch block
NavThrow ==
  /\ apc = "nav"
  /\ navI >= maxRetries
  /\ navRet' = "threw"
  /\ caught' = lastError
  /\ apc' = "catch"
  /\ UNCHANGED <<browserInstance, openPages, now, pc, idx, results, outcomes, cpc,
                 cIdx, cResults, fn, page, extracted, navI, lastError, navLog, ret,
                 storeVars, runHist, auxVars>>

\* Between the navigation and page.close(): the settle delay (Murf's,
\* Culver's), then page.content() + cheerio or page.evaluate()
AdapterExtract ==
  /\ apc = "extract"
  /\ \/ \E doc \in Documents(fn) :
          /\ extracted' = doc
          /\ apc' = "close"
          /\ UNCHANGED caught
     \/ /\ caught' = Error("Execution context was destroyed")
        /\ apc' = "catch"
        /\ UNCHANGED extracted
  /\ navLog' = <<>>
  /\ navRet' = "none"
  /\ UNCHANGED <<browserInstance, openPages, now, pc, idx, results, outcomes,
                 cpc, cIdx, cResults, fn, page, navI, lastError, ret,
                 storeVars, runHist, auxVars>>

\* await page.close() on the try path, then the return statement
AdapterClose ==
  /\ apc = "close"
  /\ \/ /\ openPages' = openPages - 1
        /\ AdapterDone(Resolved(fn, Returned(fn, CurrentLoc, extracted), FALSE))
     \/ /\ caught' = Error("Protocol error (Target.closeTarget)")
        /\ apc' = "catch"
        /\ UNCHANGED <<openPages, fn, page, extracted, navI, lastError, navLog,
                       navRet, ret>>
  /\ UNCHANGED <<browserInstance, now, pc, idx, results, outcomes, cpc,
                 cIdx, cResults, storeVars, runHist, auxVars>>

\* catch (error) { logger.error(..); if (page) await page.close(); return .. }
\* A page.close() that rejects here leaves the catch block as an exception;
\* the page it was asked to close may or may not be gone
AdapterCatch ==
  /\ apc = "catch"
  /\ LET navFailed == (navRet = "threw") IN
     IF page = "undefined"
     THEN /\ AdapterDone(Resolved(fn, Fallback(fn, CurrentLoc), navFailed))
          /\ UNCHANGED openPages
     ELSE \/ /\ openPages' = openPages - 1
             /\ AdapterDone(Resolved(fn, Fallback(fn, CurrentLoc), navFailed))
          \/ \E gone \in BOOLEAN :
               /\ gone \/ openPages <= MaxLeaked
               /\ openPages' = IF gone THEN openPages - 1 ELSE openPages
               /\ AdapterDone(Rejected(fn, Error("Protocol error (Target.closeTarget)"),
                                       navFailed))
  /\ UNCHANGED <<browserInstance, now, pc, idx, results, outcomes, cpc,
                 cIdx, cResults, storeVars, runHist, auxVars>>

\* scrapeAllCulvers: const data = await scrapeCulvers(location)
CulversCall ==
  /\ cpc = "loop"
  /\ cIdx <= Len(CULVERS_LOCATIONS)
  /\ cpc' = "await"
  /\ apc' = "getBrowser"
  /\ fn' = "scrapeCulvers"
  /\ UNCHANGED <<browserInstance, openPages, now, pc, idx, results, outcomes,
                 cIdx, cResults, page, caught, extracted, navI,
                 lastError, navLog, navRet, ret, storeVars, runHist, auxVars>>

\* scrapeAllCulvers: results.push(data); the 2 s pause; next location.  An
\* exception of scrapeCulvers is not caught here and rejects scrapeAllCulvers
CulversResume ==
  /\ cpc = "await"
  /\ ret.kind # "none"
  /\ \/ /\ ret.kind = "value"
        /\ cResults' = Append(cResults, ret.value[1])
        /\ cIdx' = cIdx + 1
        /\ cpc' = "loop"
        /\ ret' = NoRet
     \/ /\ ret.kind = "raised"
        /\ ret' = [ret EXCEPT !.fn = "scrapeAllCulvers", !.navFailed = FALSE]
        /\ cpc' = "none"
        /\ cIdx' = 1
        /\ cResults' = <<>>
  /\ UNCHANGED <<browserInstance, openPages, now, pc, idx, results, outcomes,
                 apc, fn, page, caught, extracted, navI, lastError,
                 navLog, navRet, storeVars, runHist, auxVars>>

\* scrapeAllCulvers: return results
CulversReturn ==
  /\ cpc = "loop"
  /\ cIdx > Len(CULVERS_LOCATIONS)
  /\ ret' = Resolved("scrapeAllCulvers", cResults, FALSE)
  /\ cpc' = "none"
  /\ cIdx' = 1
  /\ cResults' = <<>>
  /\ UNCHANGED <<browserInstance, openPages, now, pc, idx, results, outcomes,
                 apc, fn, page, caught, extracted, navI, lastError,
                 navLog, navRet, storeVars, runHist, auxVars>>

TotalLocationsMutant(res) == Len(res.stands) + Len(res.errors)

\* results.totalLocations = results.stands.length
TotalLocations(res) == Len(res.stands)

PushStandsMutant(stands, data) == data \o stands

\* results.stands.push(...data)
PushStands(stands, data) == stands \o data

\* results.errors.push({scraper, error, timestamp})
PushError(errors, name, message, t) ==
  Append(errors, [scraper |-> name, error |-> message, timestamp |-> t])

\* scrapeAllStands is entered (startup, cron or POST /api/scrape): the results
\* object is built and the loop over scrapers starts
StartRun ==
  /\ pc \in {"idle", "done"}
  /\ results' = [timestamp |-> now, lastUpdated |-> toLocaleString(now),
                 totalLocations |-> 0,
                 stands |-> <<>>, errors |-> <<>>]
  /\ idx' = 1
  /\ pc' = "loop"
  /\ outcomes' = <<>>
  /\ invoked' = <<>>
  /\ pagesAtStart' = openPages
  /\ settledAt' = now
  /\ UNCHANGED <<browserInstance, openPages, now, cpc, cIdx, cResults, apc, fn,
                 page, caught, extracted, navI, lastError, navLog, navRet, ret,
                 storeVars, auxVars>>

\* const data = await scraper.fn() for scrapeKopps, scrapeMurfs, scrapeGilles
CallAdapter ==
  /\ pc = "loop"
  /\ idx <= Len(scrapers)
  /\ scrapers[idx].fn \in NetworkAdapters
  /\ pc' = "await"
  /\ apc' = "getBrowser"
  /\ fn' = scrapers[idx].fn
  /\ invoked' = Append(invoked, scrapers[idx].name)
  /\ UNCHANGED <<browserInstance, openPages, now, idx, results, outcomes,
                 cpc, cIdx, cResults, page, caught, extracted, navI,
                 lastError, navLog, navRet, ret, storeVars, pagesAtStart,
                 settledAt, auxVars>>

\* const data = await scraper.fn() for scrapeAllCulvers
CallAllCulvers ==
  /\ pc = "loop"
  /\ idx <= Len(scrapers)
  /\ scrapers[idx].fn = "scrapeAllCulvers"
  /\ pc' = "await"
  /\ cpc' = "loop"
  /\ cIdx' = 1
  /\ cResults' = <<>>
  /\ invoked' = Append(invoked, scrapers[idx].name)
  /\ UNCHANGED <<browserInstance, openPages, now, idx, results, outcomes,
                 apc, fn, page, caught, extracted, navI, lastError,
                 navLog, navRet, ret, storeVars, pagesAtStart, settledAt,
                 auxVars>>

\* const data = await scraper.fn() for scrapeLeonsStatic, which is synchronous
CallLeons ==
  /\ pc = "loop"
  /\ idx <= Len(scrapers)
  /\ scrapers[idx].fn = "scrapeLeonsStatic"
  /\ pc' = "await"
  /\ ret' = Resolved("scrapeLeonsStatic", scrapeLeonsStatic, FALSE)
  /\ invoked' = Append(invoked, scrapers[idx].name)
  /\ UNCHANGED <<browserInstance, openPages, now, idx, results, outcomes,
                 cpc, cIdx, cResults, apc, fn, page, caught, extracted,
                 navI, lastError, navLog, navRet, storeVars, pagesAtStart,
                 settledAt, auxVars>>

NextScraperMutant(i, settled) ==
  IF settled.kind = "raised" THEN Len(scrapers) + 1 ELSE i + 1

\* for (const scraper of scrapers) { try { .. } catch (error) { .. } }: the
\* loop goes on to the next scraper however the call settled
NextScraper(i, settled) == i + 1

\* The await of the loop body settles: push the data, or catch and record
ResumeScraper ==
  /\ pc = "await"
  /\ cpc = "none"
  /\ apc = "none"
  /\ ret.kind # "none"
  /\ IF ret.kind = "value"
     THEN results' = [results EXCEPT !.stands = PushStands(@, ret.value)]
     ELSE results' = [results EXCEPT
                        !.errors = PushError(@, scrapers[idx].name, ret.error, now)]
  /\ outcomes' = Append(outcomes, [kind |-> ret.kind, value |-> ret.value])
  /\ ret' = NoRet
  /\ idx' = NextScraper(idx, ret)
  /\ pc' = "loop"
  /\ settledAt' = now
  /\ UNCHANGED <<browserInstance, openPages, now, cpc, cIdx, cResults,
                 apc, fn, page, caught, extracted, navI, lastError, navLog, navRet,
                 storeVars, invoked, pagesAtStart, auxVars>>

\* After the loop: results.totalLocations = results.stands.length; return results
FinishRun ==
  /\ pc = "loop"
  /\ idx > Len(scrapers)
  /\ results' = [results EXCEPT !.totalLocations = TotalLocations(results)]
  /\ pc' = "done"
  /\ UNCHANGED <<browserInstance, openPages, now, idx, outcomes, cpc,
                 cIdx, cResults, apc, fn, page, caught, extracted, navI, lastError,
                 navLog, navRet, ret, storeVars, runHist, auxVars>>

----------------------------------------------------------------------------
(* JSON.stringify and JSON.parse, on tokens *)

\* Tokens of a JSON text: punctuation, string literals, number literals (as
\* their decimal digits).  The indentation JSON.stringify(data, null, 2) adds
\* is whitespace between tokens and is not represented
Punct(c) == [t |-> "p", s |-> c]
Str(v) == [t |-> "s", s |-> v]
Num(digits) == [t |-> "n", d |-> digits]
IsPunct(tok, c) == tok.t = "p" /\ tok.s = c

\* items separated by commas
RECURSIVE Join(_)
Join(items) ==
  IF Len(items) = 0 THEN <<>>
  ELSE IF Len(items) = 1 THEN items[1]
  ELSE items[1] \o <<Punct(",")>> \o Join(Tail(items))

\* An array whose elements have the texts items, in order
StringifyArray(items) == <<Punct("[")>> \o Join(items) \o <<Punct("]")>>

\* An object whose members are the <<key, text>> pairs, in insertion order
StringifyObject(members) ==
  <<Punct("{")>>
  \o Join([i \in 1..Len(members) |->
             <<Str(members[i][1]), Punct(":")>> \o members[i][2]])
  \o <<Punct("}")>>

StringifyFlavor(f) ==
  StringifyObject(<< <<"name", <<Str(f.name)>> >>,
                     <<"description", <<Str(f.description)>> >> >>)

StringifyFlavorDay(d) ==
  StringifyObject(<< <<"date", <<Str(d.date)>> >>,
                     <<"dayLabel", <<Str(d.dayLabel)>> >>,
                     <<"flavors", StringifyArray([i \in 1..Len(d.flavors) |->
                                                    StringifyFlavor(d.flavors[i])])>> >>)

StringifyLocation(l) ==
  StringifyObject(<< <<"id", <<Str(l.id)>> >>,
                     <<"name", <<Str(l.name)>> >>,
                     <<"location", <<Str(l.location)>> >>,
                     <<"status", <<Str(l.status)>> >>,
                     <<"hours", <<Str(l.hours)>> >>,
                     <<"flavors", StringifyArray([i \in 1..Len(l.flavors) |->
                                                    StringifyFlavorDay(l.flavors[i])])>> >>
                  \o (IF "slug" \in DOMAIN l THEN << <<"slug", <<Str(l.slug)>> >> >>
                      ELSE <<>>))

StringifyError(e) ==
  StringifyObject(<< <<"scraper", <<Str(e.scraper)>> >>,
                     <<"error", <<Str(e.error)>> >>,
                     <<"timestamp", <<Str(e.timestamp)>> >> >>)

\* JSON.stringify(data, null, 2) of a results object: the members in the order
\* the object literal of scrapeAllStands lists them
JSONstringify(data) ==
  StringifyObject(<< <<"timestamp", <<Str(data.timestamp)>> >>,
                     <<"lastUpdated", <<Str(data.lastUpdated)>> >>,
                     <<"totalLocations", <<Num(NumToDigits(data.totalLocations))>> >>,
                     <<"stands", StringifyArray([i \in 1..Len(data.stands) |->
                                                   StringifyLocation(data.stands[i])])>>,
                     <<"errors", StringifyArray([i \in 1..Len(data.errors) |->
                                                   StringifyError(data.errors[i])])>> >>)

ParseFail == [ok |-> FALSE, val |-> <<>>, next |-> 0]
ParseOk(v, n) == [ok |-> TRUE, val |-> v, next |-> n]

\* JSON.parse, by recursive descent: value, array elements, object members.
\* An object becomes a record, an array a sequence
RECURSIVE ParseValue(_, _), ParseElements(_, _, _), ParseMembers(_, _, _)
ParseValue(text, i) ==
  IF i > Len(text) THEN ParseFail
  ELSE IF text[i].t = "s" THEN ParseOk(text[i].s, i + 1)
  ELSE IF text[i].t = "n" THEN ParseOk(DigitsToNum(text[i].d), i + 1)
  ELSE IF IsPunct(text[i], "[")
       THEN IF i + 1 <= Len(text) /\ IsPunct(text[i + 1], "]")
            THEN ParseOk(<<>>, i + 2)
            ELSE ParseElements(text, i + 1, <<>>)
  ELSE IF IsPunct(text[i], "{")
       THEN ParseMembers(text, i + 1, <<>>)
  ELSE ParseFail

ParseElements(text, i, acc) ==
  LET r == ParseValue(text, i) IN
  IF ~r.ok \/ r.next > Len(text) THEN ParseFail
  ELSE IF IsPunct(text[r.next], ",")
       THEN ParseElements(text, r.next + 1, Append(acc, r.val))
  ELSE IF IsPunct(text[r.next], "]")
       THEN ParseOk(Append(acc, r.val), r.next + 1)
  ELSE ParseFail

ParseMembers(text, i, acc) ==
  IF i + 1 > Len(text) \/ text[i].t # "s" \/ ~IsPunct(text[i + 1], ":")
  THEN ParseFail
  ELSE LET r == ParseValue(text, i + 2)
           obj == (text[i].s :> r.val) @@ acc
       IN IF ~r.ok \/ r.next > Len(text) THEN ParseFail
          ELSE IF IsPunct(text[r.next], ",")
               THEN ParseMembers(text, r.next + 1, obj)
          ELSE IF IsPunct(text[r.next], "}")
               THEN ParseOk(obj, r.next + 1)
          ELSE ParseFail

\* JSON.parse(text): the value, or a SyntaxError when text is not one JSON value
JSONparse(text) ==
  LET r == ParseValue(text, 1) IN
  IF r.ok /\ r.next = Len(text) + 1
  THEN [ok |-> TRUE, val |-> r.val]
  ELSE [ok |-> FALSE, val |-> <<>>]

----------------------------------------------------------------------------
(* ensureDataDirectory, saveFlavorData, loadFlavorData *)

\* The results objects handed to saveFlavorData: results of scrapeAllStands
\* made of Location objects of the shape the data model describes
SnapshotInputs ==
  { [timestamp |-> 0, lastUpdated |-> toLocaleString(0), totalLocations |-> 0,
     stands |-> <<>>,
     errors |-> << [scraper |-> "Kopp's", error |-> "Protocol error (Target.closeTarget)",
                    timestamp |-> 0] >>],
    [timestamp |-> 0, lastUpdated |-> toLocaleString(0), totalLocations |-> 2,
     stands |-> MurfsCaught \o GillesCaught,
     errors |-> <<>>],
    [timestamp |-> 1, lastUpdated |-> toLocaleString(1), totalLocations |-> 2,
     stands |-> GillesCaught \o MurfsCaught,
     errors |-> << [scraper |-> "Kopp's", error |-> "Protocol error (Target.closeTarget)",
                    timestamp |-> 1],
                   [scraper |-> "Culver's", error |-> "Protocol error (Target.closeTarget)",
                    timestamp |-> 1] >>],
    [timestamp |-> 1, lastUpdated |-> toLocaleString(1), totalLocations |-> 11,
     stands |-> KoppsLocations(<<>>) \o MurfsCaught
                \o CulversCaught(CULVERS_LOCATIONS[1]) \o CulversCaught(CULVERS_LOCATIONS[2])
                \o CulversCaught(CULVERS_LOCATIONS[3]) \o CulversCaught(CULVERS_LOCATIONS[4])
                \o CulversCaught(CULVERS_LOCATIONS[5])
                \o scrapeLeonsStatic \o GillesLocations(CHOOSE d \in GillesParsed : d.closedWinter),
     errors |-> <<>>] }

NoLoad ==
  [kind |-> "none", value |-> <<>>, error |-> "", during |-> "", file |-> "",
   fault |-> ""]

\* The object loadFlavorData returns on ENOENT
EmptyDataset(t) ==
  [timestamp |-> t, lastUpdated |-> "No data available", totalLocations |-> 0,
   stands |-> <<>>, errors |-> <<>>]

OpenForAppend(content) == content

\* fs.writeFile opens the file with flag 'w': created, or truncated to nothing
OpenForWrite(content) == <<>>

Min(a, b) == IF a < b THEN a ELSE b

\* The number of write calls that n remaining tokens can take at most
Blocks(n) == (n + BlockSize - 1) \div BlockSize

\* What flavors.json holds: no file, one complete document, or a damaged text
StoredDocument ==
  IF ~fileExists THEN [state |-> "absent", doc |-> <<>>]
  ELSE IF JSONparse(fileContent).ok
       THEN [state |-> "document", doc |-> JSONparse(fileContent).val]
       ELSE [state |-> "damaged", doc |-> <<>>]

\* saveFlavorData: catch (error) { logger.error(..); throw error; } -- the
\* call ends as a rejection ("failed"), never as `return true` ("done")
SaveCatch(error) == "failed"

\* saveFlavorData(data) is called (one call at a time in this specification)
SaveBegin ==
  /\ spc \in {"idle", "done", "failed"}
  /\ \E data \in SnapshotInputs : sData' = data
  /\ spc' = "mkdir"
  /\ sText' = <<>>
  /\ prevStored' = StoredDocument
  /\ sError' = ""
  /\ loaded' = NoLoad
  /\ UNCHANGED <<dirExists, fileExists, fileContent, now, pipeVars, auxVars>>

\* await ensureDataDirectory(): fs.mkdir(DATA_DIR, {recursive: true}); a
\* failure is logged and rethrown, and saveFlavorData rethrows it.  On
\* success the argument of writeFile, JSON.stringify(data, null, 2), is built
SaveMkdir ==
  /\ spc = "mkdir"
  /\ \/ /\ dirExists' = TRUE
        /\ sText' = JSONstringify(sData)
        /\ spc' = "open"
        /\ UNCHANGED sError
     \/ /\ sError' = "EACCES: mkdir"
        /\ spc' = SaveCatch(sError')
        /\ UNCHANGED <<dirExists, sText>>
  /\ loaded' = NoLoad
  /\ UNCHANGED <<fileExists, fileContent, sData, prevStored, now, pipeVars, auxVars>>

\* fs.writeFile, first step: open the file for writing
SaveOpen ==
  /\ spc = "open"
  /\ \/ /\ fileExists' = TRUE
        /\ fileContent' = OpenForWrite(fileContent)
        /\ spc' = "write"
        /\ UNCHANGED sError
     \/ /\ sError' = "EACCES: open"
        /\ spc' = SaveCatch(sError')
        /\ UNCHANGED <<fileExists, fileContent>>
  /\ loaded' = NoLoad
  /\ UNCHANGED <<dirExists, sData, sText, prevStored, now, pipeVars, auxVars>>

\* fs.writeFile, the write loop: the next chunk of the text goes to the file;
\* with the last one the file is closed and saveFlavorData returns true.  A
\* failing write is logged and rethrown
SaveWrite ==
  /\ spc = "write"
  /\ \/ \E k \in 1..Blocks(Len(sText) - Len(fileContent)) :
          LET end == Min(Len(fileContent) + k * BlockSize, Len(sText)) IN
          /\ fileContent' = fileContent \o SubSeq(sText, Len(fileContent) + 1, end)
          /\ spc' = IF end = Len(sText) THEN "done" ELSE "write"
          /\ UNCHANGED sError
     \/ /\ sError' = "ENOSPC: write"
        /\ spc' = SaveCatch(sError')
        /\ UNCHANGED fileContent
  /\ loaded' = NoLoad
  /\ UNCHANGED <<dirExists, fileExists, sData, sText, prevStored, now, pipeVars, auxVars>>

LoadCatchMutant(code) == "empty"

\* loadFlavorData: catch (error) { if (error.code === "ENOENT") { return the
\* empty dataset } throw error; }
LoadCatch(code) == IF code = "ENOENT" THEN "empty" ELSE "throw"

\* loadFlavorData(): readFile + JSON.parse; ENOENT gives the empty dataset,
\* every other error is rethrown
Load ==
  /\ LET file == IF ~fileExists THEN "absent"
                 ELSE IF fileContent = <<>> THEN "empty" ELSE "content"
         parsed == JSONparse(fileContent)
         result(kind, value, error, fault) ==
           [kind |-> kind, value |-> value, error |-> error, during |-> spc,
            file |-> file, fault |-> fault]
         handled(code) ==
           IF LoadCatch(code) = "empty"
           THEN result("value", EmptyDataset(now), "", code)
           ELSE result("raised", <<>>, code, code)
     IN IF ~fileExists
        THEN loaded' = handled("ENOENT")
        ELSE \/ loaded' = handled("EIO")
             \/ /\ parsed.ok
                /\ loaded' = result("value", parsed.val, "", "")
             \/ /\ ~parsed.ok
                /\ loaded' = handled("SyntaxError")
  /\ UNCHANGED <<dirExists, fileExists, fileContent, spc, sData, sText,
                 prevStored, sError, now, pipeVars, auxVars>>

\* Time passes
Tick ==
  /\ now < MaxTime
  /\ now' = now + 1
  /\ UNCHANGED <<pipeVars, storeVars, auxVars>>

----------------------------------------------------------------------------
(* The shared browser: getBrowser and closeBrowser, called by any number of  *)
(* overlapping callers (adapter calls of overlapping runs, signal handlers)  *)

\* In this part browserInstance holds "null" or the name of a launched browser
Browser(n) == "b" \o ToString(n)

GetBrowserCallers == {"g1", "g2"}
CloseBrowserCallers == {"s1", "s2"}

NoGetBrowser ==
  [pc |-> "idle", entry |-> "null", ret |-> "null", threw |-> FALSE, launched |-> 0]
NoCloseBrowser ==
  [pc |-> "idle", target |-> "null", closes |-> 0, closeOk |-> FALSE,
   result |-> "none", shutdown |-> FALSE]

IsCachedMutant(inst, insts) == inst # "null"

\* if (browserInstance && browserInstance.isConnected())
IsCached(inst, insts) == inst # "null" /\ insts[inst] = "connected"

\* getBrowser is entered: return the cached browser, or call puppeteer.launch
\* and wait for it
GetBrowserCall(c) ==
  /\ ~exited
  /\ gb[c].pc \in {"idle", "done"}
  /\ IF IsCached(browserInstance, instances)
     THEN /\ gb' = [gb EXCEPT ![c] = [pc |-> "done", entry |-> browserInstance,
                                      ret |-> browserInstance, threw |-> FALSE,
                                      launched |-> 0]]
          /\ UNCHANGED launches
     ELSE /\ launches < MaxLaunches
          /\ launches' = launches + 1
          /\ gb' = [gb EXCEPT ![c] = [pc |-> "launch", entry |-> browserInstance,
                                      ret |-> "null", threw |-> FALSE,
                                      launched |-> 1]]
  /\ UNCHANGED <<browserInstance, instances, cb, exited, notBrowser>>

\* puppeteer.launch settles: browserInstance = <the new browser>; return
\* browserInstance -- or the catch block logs and rethrows
GetBrowserSettle(c) ==
  /\ ~exited
  /\ gb[c].pc = "launch"
  /\ \/ LET b == Browser(Cardinality(DOMAIN instances) + 1) IN
        /\ instances' = instances @@ (b :> "connected")
        /\ browserInstance' = b
        /\ gb' = [gb EXCEPT ![c].pc = "done", ![c].ret = b]
     \/ /\ gb' = [gb EXCEPT ![c].pc = "done", ![c].threw = TRUE]
        /\ UNCHANGED <<browserInstance, instances>>
  /\ UNCHANGED <<launches, cb, exited, notBrowser>>

\* The browser process dies or its connection drops: isConnected() turns false
BrowserDisconnect(b) ==
  /\ ~exited
  /\ instances[b] = "connected"
  /\ instances' = [instances EXCEPT ![b] = "disconnected"]
  /\ UNCHANGED <<browserInstance, launches, gb, cb, exited, notBrowser>>

AfterCloseMutant(inst) == inst

\* await browserInstance.close(); browserInstance = null
AfterClose(inst) == "null"

\* gracefulShutdown: await closeBrowser() in a try/catch, then process.exit(0)
\* -- in the same turn of the event loop in which closeBrowser returns
ExitAfter(call) == call.shutdown

\* closeBrowser is entered, from gracefulShutdown (a signal or an uncaught
\* exception) or on its own: nothing to do without a browser, else
\* browserInstance.close() is called and awaited
CloseBrowserCall(c) ==
  /\ ~exited
  /\ cb[c].pc \in {"idle", "done"}
  /\ \E shutdown \in BOOLEAN :
       IF browserInstance # "null"
       THEN /\ cb' = [cb EXCEPT ![c] = [pc |-> "closing", target |-> browserInstance,
                                        closes |-> 1, closeOk |-> FALSE,
                                        result |-> "none", shutdown |-> shutdown]]
            /\ UNCHANGED exited
       ELSE /\ cb' = [cb EXCEPT ![c] = [pc |-> "done", target |-> "null",
                                        closes |-> 0, closeOk |-> FALSE,
                                        result |-> "returned", shutdown |-> shutdown]]
            /\ exited' = ExitAfter(cb'[c])
  /\ UNCHANGED <<browserInstance, instances, launches, gb, notBrowser>>

\* browser.close() settles: browserInstance = null -- or the catch block logs
\* the error and closeBrowser returns all the same
CloseBrowserSettle(c) ==
  /\ ~exited
  /\ cb[c].pc = "closing"
  /\ exited' = ExitAfter(cb[c])
  /\ \/ /\ instances' = [instances EXCEPT ![cb[c].target] = "closed"]
        /\ browserInstance' = AfterClose(browserInstance)
        /\ cb' = [cb EXCEPT ![c].pc = "done", ![c].closeOk = TRUE,
                            ![c].result = "returned"]
     \/ /\ cb' = [cb EXCEPT ![c].pc = "done", ![c].result = "returned"]
        /\ UNCHANGED <<browserInstance, instances>>
  /\ UNCHANGED <<launches, gb, notBrowser>>

----------------------------------------------------------------------------
(* What starts scrapeAllStands: startServer, the cron callback, and the      *)
(* POST /api/scrape handler.  Each job is `await scrapeAllStands()` followed *)
(* by `await saveFlavorData(data)`; a run is followed source by source       *)

Triggers == {"startup", "cron", "post1", "post2"}
RequestHandlers == {"post1", "post2"}

NoJob == [pc |-> "idle", settled |-> 0, timestamp |-> 0]

\* const data = await scrapeAllStands() is reached; the run builds its
\* results object, timestamp included, before its first source
BeginJob(t) ==
  jobs' = [jobs EXCEPT ![t] = [pc |-> "scrape", settled |-> 0, timestamp |-> now]]

\* startServer: ensureDataDirectory, then the initial scrape
StartServer ==
  /\ server = "init"
  /\ server' = "initialScrape"
  /\ BeginJob("startup")
  /\ UNCHANGED <<stored, notTriggers>>

\* The cron callback fires; cron.schedule is only called once the initial
\* scrape is over
CronCallback ==
  /\ server = "listening"
  /\ jobs["cron"].pc \in {"idle", "done"}
  /\ BeginJob("cron")
  /\ UNCHANGED <<server, stored, notTriggers>>

\* A POST /api/scrape request arrives; app.listen is only called once the
\* initial scrape is over
PostScrape(t) ==
  /\ server = "listening"
  /\ jobs[t].pc \in {"idle", "done"}
  /\ BeginJob(t)
  /\ UNCHANGED <<server, stored, notTriggers>>

\* One scraper.fn() call of the job's run settles
JobSourceSettled(t) ==
  /\ jobs[t].pc = "scrape"
  /\ jobs[t].settled < Len(scrapers)
  /\ jobs' = [jobs EXCEPT ![t].settled = @ + 1]
  /\ UNCHANGED <<server, stored, notTriggers>>

\* scrapeAllStands returns; saveFlavorData(data) is called
JobScraped(t) ==
  /\ jobs[t].pc = "scrape"
  /\ jobs[t].settled = Len(scrapers)
  /\ jobs' = [jobs EXCEPT ![t].pc = "save"]
  /\ UNCHANGED <<server, stored, notTriggers>>

\* saveFlavorData settles and the job is over: flavors.json now holds the
\* job's Snapshot, or the save failed and the job's catch block logged it.
\* After the initial scrape startServer goes on to initCronScheduler() and
\* app.listen()
JobSaved(t) ==
  /\ jobs[t].pc = "save"
  /\ jobs' = [jobs EXCEPT ![t].pc = "done"]
  /\ \/ stored' = jobs[t].timestamp
     \/ UNCHANGED stored
  /\ server' = IF t = "startup" THEN "listening" ELSE server
  /\ UNCHANGED notTriggers

----------------------------------------------------------------------------

InitPipe ==
  /\ browserInstance = "null"
  /\ openPages = 0
  /\ pc = "idle"
  /\ idx = 1
  /\ results = [timestamp |-> 0, lastUpdated |-> toLocaleString(0), totalLocations |-> 0,
                stands |-> <<>>, errors |-> <<>>]
  /\ outcomes = <<>>
  /\ cpc = "none"
  /\ cIdx = 1
  /\ cResults = <<>>
  /\ apc = "none"
  /\ fn = "none"
  /\ page = "undefined"
  /\ caught = NoError
  /\ extracted = <<>>
  /\ navI = 0
  /\ lastError = NoError
  /\ navLog = <<>>
  /\ navRet = "none"
  /\ ret = NoRet
  /\ invoked = <<>>
  /\ pagesAtStart = 0
  /\ settledAt = 0

InitStore ==
  /\ dirExists = FALSE
  /\ fileExists = FALSE
  /\ fileContent = <<>>
  /\ spc = "idle"
  /\ sData = <<>>
  /\ sText = <<>>
  /\ prevStored = [state |-> "absent", doc |-> <<>>]
  /\ sError = ""
  /\ loaded = NoLoad

InitBrowser ==
  /\ instances = <<>>
  /\ launches = 0
  /\ gb = [c \in GetBrowserCallers |-> NoGetBrowser]
  /\ cb = [c \in CloseBrowserCallers |-> NoCloseBrowser]
  /\ exited = FALSE

InitTriggers ==
  /\ server = "init"
  /\ jobs = [t \in Triggers |-> NoJob]
  /\ stored = -1

InitKopps ==
  /\ kpc = "none"
  /\ html = <<>>
  /\ kFlavors = <<>>

Init == InitPipe /\ InitStore /\ InitBrowser /\ InitTriggers /\ InitKopps /\ now = 0

Next ==
  \/ StartRun
  \/ CallAdapter
  \/ CallAllCulvers
  \/ CallLeons
  \/ ResumeScraper
  \/ FinishRun
  \/ CulversCall
  \/ CulversResume
  \/ CulversReturn
  \/ AdapterGetBrowser
  \/ AdapterNewPage
  \/ NavAttempt
  \/ NavThrow
  \/ AdapterExtract
  \/ AdapterClose
  \/ AdapterCatch

Spec == Init /\ [][Next]_vars

\* Every step of a run but its start.  The event loop runs each continuation
\* that is ready, and every awaited operation (launch, newPage, goto with its
\* timeout, content/evaluate, close, the timers) resolves or rejects
RunStep ==
  \/ CallAdapter
  \/ CallAllCulvers
  \/ CallLeons
  \/ ResumeScraper
  \/ FinishRun
  \/ CulversCall
  \/ CulversResume
  \/ CulversReturn
  \/ AdapterGetBrowser
  \/ AdapterNewPage
  \/ NavAttempt
  \/ NavThrow
  \/ AdapterExtract
  \/ AdapterClose
  \/ AdapterCatch

\* The first run of a process (the initial scrape of startServer), fairly
\* scheduled
NextLive == (pc = "idle" /\ StartRun) \/ RunStep

SpecLive == Init /\ [][NextLive]_vars /\ WF_vars(RunStep)

\* The runs of Spec with the clock running
NextTimed == Next \/ Tick

SpecTimed == Init /\ [][NextTimed]_vars

NextStore ==
  \/ SaveBegin
  \/ SaveMkdir
  \/ SaveOpen
  \/ SaveWrite
  \/ Load
  \/ Tick

SpecStore == Init /\ [][NextStore]_vars

NextBrowser ==
  \/ \E c \in GetBrowserCallers : GetBrowserCall(c)
  \/ \E c \in GetBrowserCallers : GetBrowserSettle(c)
  \/ \E b \in DOMAIN instances : BrowserDisconnect(b)
  \/ \E c \in CloseBrowserCallers : CloseBrowserCall(c)
  \/ \E c \in CloseBrowserCallers : CloseBrowserSettle(c)

SpecBrowser == Init /\ [][NextBrowser]_vars

NextTriggers ==
  \/ StartServer
  \/ CronCallback
  \/ \E t \in RequestHandlers : PostScrape(t)
  \/ \E t \in Triggers : JobSourceSettled(t)
  \/ \E t \in Triggers : JobScraped(t)
  \/ \E t \in Triggers : JobSaved(t)
  \/ Tick

SpecTriggers == Init /\ [][NextTriggers]_vars

NextKopps == KoppsContent \/ KoppsEach

SpecKopps == Init /\ [][NextKopps]_vars

----------------------------------------------------------------------------
(* Properties *)

\* A Location whose flavors are the single "check the source" FlavorDay
IsPlaceholder(l) ==
  /\ Len(l.flavors) = 1
  /\ "flavors" \in DOMAIN l.flavors[1]
  /\ Len(l.flavors[1].flavors) = 1
  /\ l.flavors[1].flavors[1].name \in {"Check website", "Check location"}

\* C1: an adapter call whose navigation failed on all 3 attempts settles with
\* a value (no error reaches its caller, so nothing is recorded in errors),
\* the value is not an empty list, and every Location in it is a placeholder
C1_NavFailureYieldsPlaceholder ==
  ret.navFailed =>
    /\ ret.kind = "value"
    /\ Len(ret.value) > 0
    /\ \A i \in 1..Len(ret.value) : IsPlaceholder(ret.value[i])

RECURSIVE Contributions(_)
Contributions(os) ==
  IF Len(os) = 0 THEN <<>>
  ELSE (IF os[1].kind = "value" THEN os[1].value ELSE <<>>) \o Contributions(Tail(os))

RECURSIVE RaisedNames(_, _)
RaisedNames(os, i) ==
  IF i > Len(os) THEN <<>>
  ELSE (IF os[i].kind = "raised" THEN <<scrapers[i].name>> ELSE <<>>)
       \o RaisedNames(os, i + 1)

\* C2: in the Snapshot scrapeAllStands returns, errors holds exactly one entry
\* per source whose call raised, in registry order, and stands is the
\* concatenation, in registry order, of what the other sources returned
C2_OrchestratorIsolation ==
  pc = "done" =>
    /\ Len(outcomes) = Len(scrapers)
    /\ [i \in 1..Len(results.errors) |-> results.errors[i].scraper]
         = RaisedNames(outcomes, 1)
    /\ results.stands = Contributions(outcomes)

C2_Witness ==
  /\ pc = "done"
  /\ Len(results.errors) = 2
  /\ Len(results.stands) > 3
  /\ outcomes[1].kind = "raised"

\* C3: in the Snapshot scrapeAllStands returns, totalLocations is the number
\* of entries of stands
C3_TotalLocations ==
  pc = "done" => results.totalLocations = Len(results.stands)

C3_Witness ==
  /\ pc = "done"
  /\ Len(results.stands) > 0
  /\ Len(results.errors) > 0
  /\ \E i \in 1..Len(outcomes) : outcomes[i].kind = "value" /\ outcomes[i].value = <<>>

\* C4: in the Snapshot scrapeAllStands returns, no two Locations of stands
\* have the same id
C4_UniqueIds ==
  pc = "done" =>
    \A i, j \in 1..Len(results.stands) :
      results.stands[i].id = results.stands[j].id => i = j

C4_Witness ==
  /\ pc = "done"
  /\ Len(results.stands) = 11
  /\ \E i \in 1..11 : IsPlaceholder(results.stands[i])

\* C5: no adapter call settles by raising: every call resolves to a value
C5_AdaptersNeverRaise == ret.kind # "raised"

\* C6: whenever no adapter call is running, no page opened from the browser is
\* left unclosed
C6_NoPageLeftOpen == apc = "none" => openPages = 0

\* C7: a navigation makes between 1 and 3 page.goto calls, all with the url of
\* the call; a call that succeeded is the last one and the navigation returned
\* true; a navigation that raised made 3 failed calls and raised the error of
\* the 3rd
C7_NavigationAttempts ==
  /\ Len(navLog) <= 3
  /\ navRet # "none" => Len(navLog) >= 1
  /\ \A i \in 1..Len(navLog) :
       /\ navLog[i].url = NavUrl(fn, CurrentLoc)
       /\ navLog[i].error = NoError => (i = Len(navLog) /\ navRet = "true")
       /\ navLog[i].error # NoError => navLog[i].error.attempt = i
  /\ navRet = "true" => navLog[Len(navLog)].error = NoError
  /\ navRet = "threw" => (Len(navLog) = 3 /\ caught = navLog[3].error)

C7_Witness ==
  /\ navRet = "threw"
  /\ apc = "catch"
  /\ Len(navLog) = 3

\* C8: a load made after a save of S completed, with no save begun since and
\* the file read without an I/O error, returns S
C8_RoundTrip ==
  (loaded.kind # "none" /\ loaded.during = "done" /\ loaded.error # "EIO") =>
    (loaded.kind = "value" /\ loaded.value = sData)

C8_Witness ==
  /\ loaded.kind = "value"
  /\ loaded.during = "done"
  /\ Len(loaded.value.stands) = 11
  /\ prevStored.state = "document"

\* C9: a load that finds no file, or a file with no content, and reads it
\* without an I/O error, returns the empty dataset
C9_EmptyStorageLoads ==
  (loaded.kind # "none" /\ loaded.file \in {"absent", "empty"} /\ loaded.error # "EIO") =>
    (loaded.kind = "value" /\ loaded.value = EmptyDataset(loaded.value.timestamp))

\* C10: a load made while a save is in progress (the file read without an I/O
\* error, the document in place before the save being complete or absent)
\* returns the previous document or the new one
C10_AtomicWrite ==
  (/\ loaded.kind # "none"
   /\ loaded.during \in {"mkdir", "open", "write"}
   /\ loaded.error # "EIO"
   /\ prevStored.state # "damaged") =>
    /\ loaded.kind = "value"
    /\ \/ loaded.value = sData
       \/ prevStored.state = "document" /\ loaded.value = prevStored.doc
       \/ prevStored.state = "absent"
          /\ loaded.value = EmptyDataset(loaded.value.timestamp)

----------------------------------------------------------------------------
(* The shared browser *)

\* C11: a getBrowser call that finds a cached browser reporting connected
\* returns that browser and launches nothing; a call that finds no browser, or
\* one that reports disconnected, makes exactly one puppeteer.launch call, and
\* when the launch resolves the new browser is connected, is the one cached
\* and is the one returned -- so a following call, finding it cached and
\* connected, returns the same browser
C11_GetBrowserStep ==
  \A c \in GetBrowserCallers :
    /\ (gb[c].pc \in {"idle", "done"} /\ gb'[c] # gb[c]) =>
         IF browserInstance # "null" /\ instances[browserInstance] = "connected"
         THEN /\ gb'[c].pc = "done"
              /\ gb'[c].ret = browserInstance
              /\ ~gb'[c].threw
              /\ launches' = launches
              /\ browserInstance' = browserInstance
              /\ instances' = instances
         ELSE /\ gb'[c].pc = "launch"
              /\ launches' = launches + 1
    /\ (gb[c].pc = "launch" /\ gb'[c].pc = "done") =>
         /\ launches' = launches
         /\ ~gb'[c].threw =>
              /\ gb'[c].ret \notin DOMAIN instances
              /\ gb'[c].ret \in DOMAIN instances'
              /\ instances'[gb'[c].ret] = "connected"
              /\ browserInstance' = gb'[c].ret
              /\ Cardinality(DOMAIN instances') = Cardinality(DOMAIN instances) + 1
C11_GetBrowser == [][C11_GetBrowserStep]_vars

\* One caller relaunched after the cached browser had disconnected, and the
\* next call was handed that same new browser without a launch
C11_Witness ==
  \E c, d \in GetBrowserCallers :
    /\ gb[c].pc = "done" /\ gb[c].launched = 1 /\ ~gb[c].threw
    /\ gb[c].entry # "null"
    /\ gb[d].pc = "done" /\ gb[d].launched = 0
    /\ gb[d].ret = gb[c].ret
    /\ browserInstance = gb[c].ret

\* C12: closeBrowser never raises -- with no browser, with a browser that
\* closes, and with a browser whose close() rejects, it returns normally;
\* when close() resolved no browser is held on return; a call that finds no
\* browser held performs no close and changes nothing
C12_CloseBrowserStep ==
  \A c \in CloseBrowserCallers :
    /\ (cb'[c] # cb[c] /\ cb'[c].pc = "done") =>
         /\ cb'[c].result = "returned"
         /\ cb'[c].closeOk => browserInstance' = "null"
    /\ (cb[c].pc \in {"idle", "done"} /\ cb'[c] # cb[c] /\ browserInstance = "null") =>
         /\ cb'[c].pc = "done"
         /\ cb'[c].closes = 0
         /\ browserInstance' = "null"
         /\ instances' = instances
C12_CloseBrowser == [][C12_CloseBrowserStep]_vars

\* One call closed the browser and a later call found nothing to close
C12_Witness ==
  \E c, d \in CloseBrowserCallers :
    /\ cb[c].pc = "done" /\ cb[c].closes = 1 /\ cb[c].closeOk
    /\ cb[d].pc = "done" /\ cb[d].closes = 0
    /\ browserInstance = "null"
    /\ \E b \in DOMAIN instances : instances[b] = "closed"

----------------------------------------------------------------------------
(* Overlapping runs *)

ActiveRuns == {t \in Triggers : jobs[t].pc = "scrape"}

\* C13: at most one scrapeAllStands run is active at any time, whatever the
\* interleaving of the startup scrape, the cron callback and POST /api/scrape
C13_SingleActiveRun == Cardinality(ActiveRuns) <= 1

----------------------------------------------------------------------------
(* scrapeAllCulvers, the shape of the flavors lists, the order of a run *)

\* C14: every scrapeAllCulvers call returns exactly one Location per entry of
\* CULVERS_LOCATIONS, in registry order, whatever each sub-location's scrape
\* met; it never ends early and never loses a sub-location
C14_AllCulversLocations ==
  (ret.fn = "scrapeAllCulvers" /\ ret.kind # "none") =>
    /\ ret.kind = "value"
    /\ Len(ret.value) = Len(CULVERS_LOCATIONS)
    /\ \A i \in 1..Len(CULVERS_LOCATIONS) :
         ret.value[i].slug = CULVERS_LOCATIONS[i].slug

IsFlavor(f) == DOMAIN f = {"name", "description"}

IsFlavorDay(d) ==
  /\ DOMAIN d = {"date", "dayLabel", "flavors"}
  /\ \A k \in 1..Len(d.flavors) : IsFlavor(d.flavors[k])

\* C16: in the Snapshot a run returns, every entry of every Location's flavors
\* list is a FlavorDay {date, dayLabel, flavors} whose flavors are
\* {name, description} records
C16_FlavorDayShape ==
  pc = "done" =>
    \A i \in 1..Len(results.stands) :
      \A j \in 1..Len(results.stands[i].flavors) :
        IsFlavorDay(results.stands[i].flavors[j])

\* C18: while a run is in progress at most one of the pages it has opened is
\* open
C18_OnePageOpen ==
  pc \in {"loop", "await"} => openPages - pagesAtStart <= 1

\* C19: the wait after the k-th failed page.goto is 2000 ms * k for k = 1, 2;
\* there is no wait after a successful attempt and none after the 3rd failure
\* (and so none before the first attempt)
C19_Backoff ==
  \A k \in 1..Len(navLog) :
    navLog[k].wait = IF navLog[k].error # NoError /\ k \in {1, 2}
                     THEN 2000 * k
                     ELSE 0

\* A navigation that failed three times: waits of 2000, 4000 and none
C19_Witness ==
  /\ navRet = "threw"
  /\ Len(navLog) = 3
  /\ navLog[1].wait = 2000
  /\ navLog[2].wait = 4000
  /\ navLog[3].wait = 0

\* C20: the timestamp of a returned Snapshot is not earlier than the moment
\* the last source's call of the run settled
C20_TimestampAfterSources ==
  pc = "done" => results.timestamp >= settledAt

ScraperNames == [i \in 1..Len(scrapers) |-> scrapers[i].name]

\* C17: a run calls the five sources in registry order, each exactly once,
\* whatever the earlier ones did -- at every moment the calls made so far are
\* a prefix of the registry and a returned run has made all five -- and every
\* run that has started returns
C17_RunCallsAllAndReturns ==
  /\ [](/\ Len(invoked) <= Len(scrapers)
        /\ invoked = SubSeq(ScraperNames, 1, Len(invoked))
        /\ pc = "done" => invoked = ScraperNames)
  /\ (pc \in {"loop", "await"}) ~> (pc = "done")

\* A run returned although two of its sources raised
C17_Witness ==
  /\ pc = "done"
  /\ Len(results.errors) >= 2
  /\ invoked = ScraperNames

----------------------------------------------------------------------------
(* The Kopp's flavor-preview page *)

\* The label the priority rule gives each heading text; "" for a heading that
\* is no day heading
ExpectedDayLabel(text) ==
  CASE text = TodayHeading    -> "today"
    [] text = TomorrowHeading -> "tomorrow"
    [] text = WeekdayHeading  -> "tuesday"
    [] OTHER                  -> ""

IsDayHeading(el) == el.tagName = "h2" /\ ExpectedDayLabel(el.text) # ""

\* The names of the flavor sub-headings from element j up to the next heading
RECURSIVE FlavorNamesUpToHeading(_, _)
FlavorNamesUpToHeading(doc, j) ==
  IF j > Len(doc) \/ doc[j].tagName = "h2" THEN <<>>
  ELSE (IF doc[j].tagName = "h3" /\ trim(doc[j].text) # <<>>
        THEN <<Concat(trim(doc[j].text))>> ELSE <<>>)
       \o FlavorNamesUpToHeading(doc, j + 1)

\* The positions of the day headings of a document, in order
RECURSIVE DayHeadings(_, _)
DayHeadings(doc, i) ==
  IF i > Len(doc) THEN <<>>
  ELSE (IF IsDayHeading(doc[i]) THEN <<i>> ELSE <<>>) \o DayHeadings(doc, i + 1)

\* C15: scrapeKopps turns a document into one FlavorDay per day heading, in
\* order, labelled "today" / "tomorrow" / the lowercased weekday by the
\* priority rule, each holding exactly the flavors that stand between its
\* heading and the next heading
C15_KoppsFlavorDays ==
  kpc = "done" =>
    LET heads == DayHeadings(html, 1) IN
    /\ Len(kFlavors) = Len(heads)
    /\ \A k \in 1..Len(heads) :
         /\ kFlavors[k].dayLabel = ExpectedDayLabel(html[heads[k]].text)
         /\ [n \in 1..Len(kFlavors[k].flavors) |-> kFlavors[k].flavors[n].name]
              = FlavorNamesUpToHeading(html, heads[k] + 1)

----------------------------------------------------------------------------
(* Failures of the store *)

\* C21: a saveFlavorData call that met an error making the directory or
\* writing the file ended as a rejection, and one that returned true met
\* none; a loadFlavorData call whose read or parse failed for a reason other
\* than the file not existing raised that error, and only the missing file is
\* answered with the empty dataset
C21_StoreFailuresPropagate ==
  /\ sError # "" => spc = "failed"
  /\ spc = "done" => sError = ""
  /\ loaded.kind # "none" =>
       /\ loaded.fault \in {"EIO", "SyntaxError"} =>
            (loaded.kind = "raised" /\ loaded.error = loaded.fault)
       /\ loaded.fault = "ENOENT" =>
            (loaded.kind = "value" /\ loaded.file = "absent"
             /\ loaded.value = EmptyDataset(loaded.value.timestamp))
       /\ loaded.kind = "raised" => loaded.fault \in {"EIO", "SyntaxError"}

\* A save failed in its write and the load that followed failed to parse
C21_Witness ==
  /\ spc = "failed"
  /\ sError = "ENOSPC: write"
  /\ loaded.kind = "raised"
  /\ loaded.fault = "SyntaxError"

\* C24: after a saveFlavorData call raised, a load (whose read meets no I/O
\* error) returns the Snapshot that was stored before that call, or the empty
\* dataset if there was none
C24_FailedSaveLeavesStore ==
  (spc = "failed" /\ loaded.kind # "none" /\ loaded.error # "EIO"
     /\ prevStored.state \in {"absent", "document"}) =>
    /\ loaded.kind = "value"
    /\ loaded.value = IF prevStored.state = "document" THEN prevStored.doc
                      ELSE EmptyDataset(loaded.value.timestamp)

----------------------------------------------------------------------------
(* Browsers left behind *)

Unclosed == {b \in DOMAIN instances : instances[b] = "connected"}
LaunchesInFlight == {c \in GetBrowserCallers : gb[c].pc = "launch"}

\* C22: when the process has exited through gracefulShutdown, no launched
\* browser is left unclosed and no launch is left in flight
C22_NoBrowserLeftAtExit ==
  exited => (Unclosed = {} /\ LaunchesInFlight = {})

\* C23: at most one launched browser is unclosed at any time, and it is the
\* one held in browserInstance
C23_OneBrowserAndCached ==
  /\ Cardinality(Unclosed) <= 1
  /\ \A b \in Unclosed : b = browserInstance

----------------------------------------------------------------------------
(* The age of the stored Snapshot *)

\* C25: every completed save replaces the stored Snapshot with one whose
\* timestamp is not smaller, whatever the interleaving of the startup, cron
\* and POST /api/scrape jobs
C25_StoredNeverGoesBack == [][stored' >= stored]_vars
====
